---- MODULE Spec2Model ----
(***************************************************************************)
(* Model of restrend_pointwise/src/main.py: the RESTREND pipeline          *)
(* (annual resampling, climate->NDVI regression, residuals, residual trend, *)
(* Mann-Kendall significance mask, export) at one pixel, and of            *)
(* mann_kendall_stat as a pure function.                                   *)
(*                                                                         *)
(* Earth Engine images are followed at one pixel.  A pixel value is a      *)
(* record [st, num, den]: an exact rational num/den when st = "ok", a      *)
(* masked pixel when st = "masked", and st = "error" when the image has no *)
(* band to read there (a reduction of an empty collection, a rename whose  *)
(* name count does not match, an array index out of range), which makes    *)
(* the evaluation of every expression that uses it fail.                   *)
(*                                                                         *)
(* NDVI values are carried in hundredths (0.01 NDVI): a raw MOD13Q1 digital *)
(* number d is d * 0.0001 NDVI = d / 100 hundredths.                       *)
(***************************************************************************)
EXTENDS Integers, Sequences, FiniteSets, TLC

VARIABLES
    scene,          \* the pixel's content of the two Earth Engine assets
    pc,             \* position in run / restrend_pointwise / the export task
    params,         \* the params dictionary handed to run
    year_start, year_end, geojson, EXECUTION_ID,
    ndvi_1yr_o, coll_1yr_o,
    lf_clim_ndvi, ndvi_1yr_p, ndvi_1yr_r, lf_prest,
    mk_prest, period, kendall, mk_trend,
    task,           \* the export task: started flag, state, exported pixel
    result,         \* what run returned
    imageCollection, MKSstat, MKSrev, mkpc   \* mann_kendall_stat on its own

pipevars == <<scene, pc, params, year_start, year_end, geojson, EXECUTION_ID,
              ndvi_1yr_o, coll_1yr_o, lf_clim_ndvi, ndvi_1yr_p,
              ndvi_1yr_r, lf_prest, mk_prest, period, kendall, mk_trend,
              task, result>>

mkvars == <<imageCollection, MKSstat, MKSrev, mkpc>>

vars == <<pipevars, mkvars>>

----------------------------------------------------------------------------
(* Bounds of the model *)

\* longest stack handed to mann_kendall_stat on its own
MaxLen == 4
\* pixel values of those stacks range over 0..MaxVal
MaxVal == 2
\* NDVI response to climate, hundredths per climate unit, 1..MaxGain
MaxGain == 2
\* amplitude of the four-year climate oscillation, 0..MaxAmp
MaxAmp == 1
\* latest year_end a caller asks for
LastYear == 2016

----------------------------------------------------------------------------
(* Exact rational arithmetic *)

Abs(x) == IF x < 0 THEN -x ELSE x

Min(a, b) == IF a < b THEN a ELSE b

RECURSIVE Gcd(_, _)
Gcd(a, b) == IF b = 0 THEN a ELSE Gcd(b, a % b)

Lcm(a, b) == (a \div Gcd(a, b)) * b

\* the rational n/d (d # 0) in lowest terms with a positive denominator
Rat(n, d) ==
    LET g == Gcd(Abs(n), Abs(d))
        s == IF d < 0 THEN -1 ELSE 1
    IN  [st |-> "ok", num |-> (s * n) \div g, den |-> Abs(d) \div g]

Val(n) == [st |-> "ok", num |-> n, den |-> 1]

Masked == [st |-> "masked", num |-> 0, den |-> 1]

ErrorPx == [st |-> "error", num |-> 0, den |-> 1]

Unset == [st |-> "unset", num |-> 0, den |-> 1]

RAdd(a, b) ==
    LET l == Lcm(a.den, b.den)
    IN  Rat(a.num * (l \div a.den) + b.num * (l \div b.den), l)

RNeg(a) == [a EXCEPT !.num = -a.num]

RSub(a, b) == RAdd(a, RNeg(b))

RMul(a, b) ==
    LET g1 == Gcd(Abs(a.num), b.den)
        g2 == Gcd(Abs(b.num), a.den)
    IN  Rat((a.num \div g1) * (b.num \div g2), (a.den \div g2) * (b.den \div g1))

\* a / b for b # 0
RDiv(a, b) == RMul(a, Rat(b.den, b.num))

\* floor(n / d) for d > 0
Floor(n, d) == IF n >= 0 THEN n \div d ELSE -((-n + d - 1) \div d)

\* n1/d1 < n2/d2 for positive denominators: by the integer parts, then by
\* the reciprocals of the fractional parts (no product of the terms is formed)
RECURSIVE FracLt(_, _, _, _)
FracLt(n1, d1, n2, d2) ==
    LET q1 == Floor(n1, d1)
        q2 == Floor(n2, d2)
        r1 == n1 - q1 * d1
        r2 == n2 - q2 * d2
    IN  IF q1 # q2 THEN q1 < q2
        ELSE IF r2 = 0 THEN FALSE
        ELSE IF r1 = 0 THEN TRUE
        ELSE FracLt(d2, r2, d1, r1)

RLt(a, b) == FracLt(a.num, a.den, b.num, b.den)

RLe(a, b) == ~RLt(b, a)

\* the sum of s[lo..hi], by halves
RECURSIVE RSumRange(_, _, _)
RSumRange(s, lo, hi) ==
    IF lo > hi THEN Val(0)
    ELSE IF lo = hi THEN s[lo]
    ELSE LET mid == (lo + hi) \div 2
         IN  RAdd(RSumRange(s, lo, mid), RSumRange(s, mid + 1, hi))

RSum(s) == RSumRange(s, 1, Len(s))

----------------------------------------------------------------------------
(* Per-pixel semantics of the Earth Engine image operations the code uses *)

\* a binary image operation: no band on either side fails, a masked operand
\* masks the result
Lift2(a, b, v) ==
    IF a.st = "error" \/ b.st = "error" THEN ErrorPx
    ELSE IF a.st = "masked" \/ b.st = "masked" THEN Masked
    ELSE v

Bool(b) == IF b THEN Val(1) ELSE Val(0)

lt(a, b) == Lift2(a, b, Bool(RLt(a, b)))

gt(a, b) == Lift2(a, b, Bool(RLt(b, a)))

lte(a, b) == Lift2(a, b, Bool(RLe(a, b)))

add(a, b) == Lift2(a, b, RAdd(a, b))

subtract(a, b) == Lift2(a, b, RSub(a, b))

multiply(a, b) == Lift2(a, b, RMul(a, b))

abs(a) == IF a.st = "ok" THEN [a EXCEPT !.num = Abs(a.num)] ELSE a

\* Image.where: value where test is nonzero; a masked test keeps the input,
\* a masked input stays masked
where(input, test, value) ==
    IF input.st = "error" \/ test.st = "error" THEN ErrorPx
    ELSE IF input.st = "masked" THEN Masked
    ELSE IF test.st = "masked" THEN input
    ELSE IF test.num # 0 THEN value ELSE input

unmask(a, value) == IF a.st = "masked" THEN value ELSE a

\* ImageCollection.sum / Reducer.sum over a stack: masked inputs are
\* skipped, no valid input leaves the pixel masked, an empty collection
\* reduces to an image without bands
ImageSum(s) ==
    IF Len(s) = 0 THEN ErrorPx
    ELSE IF \E i \in 1..Len(s) : s[i].st = "error" THEN ErrorPx
    ELSE LET ok == SelectSeq(s, LAMBDA p : p.st = "ok")
         IN  IF Len(ok) = 0 THEN Masked ELSE RSum(ok)

\* ImageCollection.mean / Reducer.mean over a stack
ImageMean(s) ==
    LET t == ImageSum(s)
    IN  IF t.st = "ok"
        THEN RDiv(t, Val(Len(SelectSeq(s, LAMBDA p : p.st = "ok"))))
        ELSE t

\* collection.toList(count)
toList(coll, count) == SubSeq(coll, 1, Min(Len(coll), count))

----------------------------------------------------------------------------
(* mann_kendall_stat *)

\* the index pairs (k, l) visited by
\*   for k in range(0, NumberOfItems-2): for l in range(k+1, NumberOfItems-1)
\* in visiting order: the inner loop of one k, then the outer loop by halves
InnerLoop(k, n) ==
    [i \in 1..(IF n - 1 > k + 1 THEN n - 2 - k ELSE 0) |-> <<k, k + i>>]

RECURSIVE OuterLoop(_, _, _)
OuterLoop(lo, hi, n) ==
    IF lo > hi THEN <<>>
    ELSE IF lo = hi THEN InnerLoop(lo, n)
    ELSE LET mid == (lo + hi) \div 2
         IN  OuterLoop(lo, mid, n) \o OuterLoop(mid + 1, hi, n)

LoopPairs(n) == OuterLoop(0, n - 3, n)

ToListLimit == 50

mann_kendall_stat(coll) ==
    LET TimeSeriesList == toList(coll, ToListLimit)
        NumberOfItems == Len(TimeSeriesList)
        Pairs == LoopPairs(NumberOfItems)
        CurrentImage(i) == TimeSeriesList[Pairs[i][1] + 1]
        nextImage(i) == TimeSeriesList[Pairs[i][2] + 1]
        ConcordantArray ==
            [i \in 1..Len(Pairs) |-> lt(CurrentImage(i), nextImage(i))]
        DiscordantArray ==
            [i \in 1..Len(Pairs) |-> gt(CurrentImage(i), nextImage(i))]
        ConcordantSum == ImageSum(ConcordantArray)
        DiscordantSum == ImageSum(DiscordantArray)
    IN  subtract(ConcordantSum, DiscordantSum)

\* the stack in reversed time order
Reverse(s) == [i \in 1..Len(s) |-> s[Len(s) + 1 - i]]

\* the median of a stack at one pixel (the mean of the two middle values of
\* an even count); masked inputs are skipped
RECURSIVE Insert(_, _)
Insert(x, s) ==
    IF s = <<>> THEN <<x>>
    ELSE IF RLe(x, Head(s)) THEN <<x>> \o s
    ELSE <<Head(s)>> \o Insert(x, Tail(s))

RECURSIVE Sort(_)
Sort(s) == IF s = <<>> THEN <<>> ELSE Insert(Head(s), Sort(Tail(s)))

ImageMedian(s) ==
    IF Len(s) = 0 THEN ErrorPx
    ELSE IF \E i \in 1..Len(s) : s[i].st = "error" THEN ErrorPx
    ELSE LET ok == Sort(SelectSeq(s, LAMBDA p : p.st = "ok"))
             n == Len(ok)
         IN  IF n = 0 THEN Masked
             ELSE IF n % 2 = 1 THEN ok[(n + 1) \div 2]
             ELSE RDiv(RAdd(ok[n \div 2], ok[n \div 2 + 1]), Val(2))

\* Reducer.linearFit over samples [x, y]: ordinary least squares over the
\* samples valid in both x and y; fewer than two of them, or no variance in
\* x, leaves the pixel masked
FitValid(samples) ==
    SelectSeq(samples, LAMBDA p : p.x.st = "ok" /\ p.y.st = "ok")

FitError(samples) ==
    \/ Len(samples) = 0
    \/ \E i \in 1..Len(samples) :
          samples[i].x.st = "error" \/ samples[i].y.st = "error"

FitMeanX(v) == RDiv(RSum([i \in 1..Len(v) |-> v[i].x]), Val(Len(v)))

FitMeanY(v) == RDiv(RSum([i \in 1..Len(v) |-> v[i].y]), Val(Len(v)))

FitCov(v) ==
    LET xbar == FitMeanX(v)
        ybar == FitMeanY(v)
    IN  RSum([i \in 1..Len(v) |->
                 RMul(RSub(v[i].x, xbar), RSub(v[i].y, ybar))])

FitVar(v) ==
    LET xbar == FitMeanX(v)
    IN  RSum([i \in 1..Len(v) |->
                 RMul(RSub(v[i].x, xbar), RSub(v[i].x, xbar))])

\* band 'scale' of the fit
linearFitScale(samples) ==
    IF FitError(samples) THEN ErrorPx
    ELSE LET v == FitValid(samples)
         IN  IF Len(v) < 2 THEN Masked
             ELSE IF FitVar(v).num = 0 THEN Masked
             ELSE RDiv(FitCov(v), FitVar(v))

\* band 'offset' of the fit
linearFitOffset(samples) ==
    LET sc == linearFitScale(samples)
        v == FitValid(samples)
    IN  IF sc.st # "ok" THEN sc
        ELSE RSub(FitMeanY(v),
                  RMul(sc, FitMeanX(v)))

linearFit(samples) ==
    [scale |-> linearFitScale(samples), offset |-> linearFitOffset(samples)]

----------------------------------------------------------------------------
(* The two Earth Engine assets at the pixel, built from the scene *)

\* a four-year climate oscillation: two wet years, two dry years
Osc(z) == IF z % 4 < 2 THEN 1 ELSE 0

\* annual climate level of the scene in year y
ClimYear(s, y) == 1 + s.trend * (y - 1982) + s.amp * Osc(y + s.phase)

\* annual NDVI level of the scene in year y, in raw digital numbers: a
\* linear response to the climate level plus a drift per year
NdviDN(s, y) == 100 * (20 + s.gain * ClimYear(s, y) + s.drift * (y - 2003))

\* the year in which the scene has a gap in the NDVI record
GapYear == 2005

\* the MOD13Q1 composites of year y at the pixel (date = year * 1000 + day
\* of year): an early and a late composite around the annual level, with
\* good quality flags unless the scene has a gap in that year
Composites(s, y) ==
    LET lo == [date |-> y * 1000 + 1, NDVI |-> NdviDN(s, y) - 100]
        hi == [date |-> y * 1000 + 353, NDVI |-> NdviDN(s, y) + 100]
        Img(c, q) == [date |-> c.date, NDVI |-> c.NDVI, SummaryQA |-> q]
    IN  IF y # GapYear \/ s.gap = "none" THEN <<Img(lo, 0), Img(hi, 1)>>
        ELSE IF s.gap = "cloud" THEN <<Img(lo, 2), Img(hi, 3)>>
        ELSE IF s.gap = "partial" THEN <<Img(lo, 0), Img(hi, -1)>>
        ELSE <<>>

RECURSIVE Archive(_, _)
Archive(s, y) ==
    IF y > LastYear THEN <<>> ELSE Composites(s, y) \o Archive(s, y + 1)

\* ee.ImageCollection('MODIS/006/MOD13Q1') at the pixel
modis_16d_o(s) == Archive(s, 2000)

\* ee.Image('users/geflanddegradation/soil/sen_soilm_merra2_15d_1982_2015'),
\* band b (0-based) at the pixel: 24 bands a year from 1982 on, the annual
\* level with a seasonal swing
clim_15d_o(s, b) ==
    Val(10000 * (ClimYear(s, 1982 + b \div 24)
                 + (IF b % 24 < 12 THEN 1 ELSE -1)))

\* the scenes of the model: the response to climate, the residual drift in
\* hundredths per year, a climate trend or none, the oscillation and its
\* phase, and the kind of gap in the NDVI record
Scenes ==
    [gain : 1..MaxGain, drift : {-1, 0, 1}, trend : {0, 1},
     amp : 0..MaxAmp, phase : {0, 1},
     gap : {"none", "cloud", "partial", "missing"}]

----------------------------------------------------------------------------
(* restrend_pointwise *)

Eq(a, b) == IF a = b THEN 1 ELSE 0

\* numeric where on the quality band
QaWhere(input, test, value) == IF test # 0 THEN value ELSE input

\* qa_filter: NDVI kept where the mask derived from SummaryQA is nonzero
qa_filter(img) ==
    LET qa == img.SummaryQA
        m1 == QaWhere(qa, Eq(qa, -1), 0)
        m2 == QaWhere(m1, Eq(qa, 0), 1)
        m3 == QaWhere(m2, Eq(qa, 1), 1)
        m4 == QaWhere(m3, Eq(qa, 2), 0)
        mask == QaWhere(m4, Eq(qa, 3), 0)
    IN  [date |-> img.date,
         NDVI |-> IF mask # 0 THEN Val(img.NDVI) ELSE Masked]

\* collection.filterDate(start, end): start inclusive, end exclusive
filterDate(coll, start, end) ==
    SelectSeq(coll, LAMBDA im : start <= im.date /\ im.date < end)

\* multiply(0.0001): digital numbers to NDVI, here to hundredths of NDVI
DnScale == Rat(100, 10000)

\* range(a, b) of Python
Range(a, b) == [i \in 1..(IF b > a THEN b - a ELSE 0) |-> a + i - 1]

\* int_16d_1yr_o: one image per k in range(year_start, year_end); the
\* rename to ['ndvi', 'year'] has no band to name when the year holds no
\* composite
int_16d_1yr_o(ndvi_coll, ys, ye) ==
    LET yrs == Range(ys, ye)
        imgs(k) == filterDate(ndvi_coll, k * 1000 + 1, k * 1000 + 365)
        ndvi_img(k) ==
            multiply(ImageMean([i \in 1..Len(imgs(k)) |-> imgs(k)[i].NDVI]),
                     DnScale)
    IN  [i \in 1..Len(yrs) |-> [year |-> yrs[i], ndvi |-> ndvi_img(yrs[i])]]

\* int_15d_1yr_clim: element k (1..33) of the collection, the mean of bands
\* (k-1)*24 .. k*24-1, labelled year 1981+k
ClimWindows == 1..33

int_15d_1yr_clim(s, k) ==
    [year |-> 1981 + k,
     ndvi |-> ImageMean([j \in 1..24 |->
                  RDiv(clim_15d_o(s, (k - 1) * 24 + j - 1), Val(10000))])]

\* clim_1yr_o.filter(ee.Filter.eq('year', y)).select('ndvi'), as a stack
clim_1yr_o_year(s, y) ==
    LET ks == {k \in ClimWindows : 1981 + k = y}
    IN  IF ks = {} THEN <<>>
        ELSE <<int_15d_1yr_clim(s, CHOOSE k \in ks : TRUE).ndvi>>

\* coll.filter(ee.Filter.eq('year', y)).select('ndvi'), as a stack
FilterYear(coll, y) ==
    LET hit == SelectSeq(coll, LAMBDA im : im.year = y)
    IN  [i \in 1..Len(hit) |-> hit[i].ndvi]

\* stack: one {ndvi, clim, year} image per k in range(year_start, year_end);
\* the rename to three names fails when a median has no band
stack(s, annual, ys, ye) ==
    LET yrs == Range(ys, ye)
        ndvi(k) == ImageMedian(FilterYear(annual, k))
        clim(k) == ImageMedian(clim_1yr_o_year(s, k))
        bad(k) == ndvi(k).st = "error" \/ clim(k).st = "error"
    IN  [i \in 1..Len(yrs) |->
            [year |-> yrs[i],
             ndvi |-> IF bad(yrs[i]) THEN ErrorPx ELSE ndvi(yrs[i]),
             clim |-> IF bad(yrs[i]) THEN ErrorPx ELSE clim(yrs[i])]]

\* ndvi_clim_p iterated over coll_1yr_o.select('clim')
ndvi_clim_p(coll, lf) ==
    [i \in 1..Len(coll) |->
        [year |-> coll[i].year,
         ndvi |-> add(lf.offset, multiply(lf.scale, coll[i].clim))]]

\* ndvi_clim_r_img with the operands of the subtraction exchanged
ndvi_clim_r_img_swapped(coll, pred, year) ==
    LET ndvi_o == ImageMedian(FilterYear(coll, year))
        ndvi_p == ImageMedian(FilterYear(pred, year))
    IN  [year |-> Val(year), ndvi_res |-> subtract(ndvi_p, ndvi_o)]

\* ndvi_clim_r_img
ndvi_clim_r_img(coll, pred, year) ==
    LET ndvi_o == ImageMedian(FilterYear(coll, year))
        ndvi_p == ImageMedian(FilterYear(pred, year))
    IN  [year |-> Val(year), ndvi_res |-> subtract(ndvi_o, ndvi_p)]

\* ndvi_clim_r_coll: one residual image per i in range(year_start, year_end)
ndvi_clim_r_coll(coll, pred, ys, ye) ==
    LET yrs == Range(ys, ye)
    IN  [i \in 1..Len(yrs) |-> ndvi_clim_r_img(coll, pred, yrs[i])]

\* the critical values of the Kendall statistic at significance 0.05
coefficients ==
    <<4, 6, 9, 11, 14, 16, 19, 21, 24, 26, 31, 33, 36,
      40, 43, 47, 50, 54, 59, 63, 66, 70, 75, 79, 84,
      88, 93, 97, 102, 106, 111, 115, 120, 126, 131,
      137, 142>>

\* ee.Array.get([i]): 0-based, no value outside the array
ArrayGet(arr, i) ==
    IF i >= 0 /\ i < Len(arr) THEN Val(arr[i + 1]) ELSE ErrorPx

\* the nodata value written by the export expression
NoData == -99999

Hundredths(r) == RMul(r, Val(100))

Sentinel == Hundredths(Val(NoData))

\* 0.000001, the slope magnitude below which the trend is dropped
SlopeEps == Hundredths(Rat(1, 1000000))

\* the export image without the second where(), the one on the slope
ExportImageNoSlopeTest(scale, mk, k) ==
    unmask(where(scale, lte(abs(mk), k), Sentinel), Sentinel)

\* the image of the export dictionary
ExportImage(scale, mk, k) ==
    unmask(where(where(scale, lte(abs(mk), k), Sentinel),
                 lte(abs(scale), SlopeEps), Sentinel),
           Sentinel)

----------------------------------------------------------------------------
(* run and the steps of restrend_pointwise *)

\* a params entry: <<>> when the key is absent, <<v>> when it holds v
Get(opt, default) == IF opt = <<>> THEN default ELSE opt[1]

DefaultYearStart == 2003

DefaultYearEnd == 2015

\* the GeoJSON values a caller passes: None, an empty dict, a polygon
GeoArgs == {<<>>, <<"None">>, <<"{}">>, <<"Polygon">>}

default_poly == "Senegal"

\* `geojson is None` in place of `not geojson`
FalsyNoneOnly(g) == g = "None"

\* `not geojson` of Python
Falsy(g) == g \in {"None", "{}"}

\* the year ranges callers ask for: every range from the default start
\* year, and the ranges whose length is around the end of the table of
\* critical values
YearRanges ==
    {<<DefaultYearStart, b>> : b \in DefaultYearStart..LastYear}
    \cup {<<LastYear - 40, b>> : b \in (LastYear - 2)..LastYear}

\* the params dictionaries of the model: a polygon with a year range, or
\* the years left to the defaults with any geojson entry or none
ParamSets ==
    {[year_start |-> <<r[1]>>, year_end |-> <<r[2]>>,
      geojson |-> <<"Polygon">>] : r \in YearRanges}
    \cup {[year_start |-> <<>>, year_end |-> <<>>, geojson |-> g] :
        g \in GeoArgs}

NoTask == [started |-> FALSE, state |-> "UNSUBMITTED", image |-> Unset,
           description |-> "", region |-> ""]

Init ==
    /\ scene \in Scenes
    /\ pc = "idle"
    /\ params = <<>>
    /\ year_start = 0 /\ year_end = 0 /\ geojson = "" /\ EXECUTION_ID = ""
    /\ ndvi_1yr_o = <<>> /\ coll_1yr_o = <<>>
    /\ lf_clim_ndvi = [scale |-> Unset, offset |-> Unset]
    /\ ndvi_1yr_p = <<>> /\ ndvi_1yr_r = <<>>
    /\ lf_prest = [scale |-> Unset]
    /\ mk_prest = Unset /\ period = 0 /\ kendall = Unset /\ mk_trend = Unset
    /\ task = NoTask
    /\ result = "none"
    /\ imageCollection = <<>> /\ MKSstat = Unset /\ MKSrev = Unset
    /\ mkpc = "off"

\* run, up to the call of restrend_pointwise
Run(p) ==
    /\ pc = "idle"
    /\ params' = p
    /\ year_start' = Get(p.year_start, DefaultYearStart)
    /\ year_end' = Get(p.year_end, DefaultYearEnd)
    /\ EXECUTION_ID' = "default_execution_id"
    /\ geojson' = Get(p.geojson, default_poly)
    /\ IF Falsy(geojson')
       THEN pc' = "returned" /\ result' = "False"
       ELSE pc' = "restrend" /\ result' = result
    /\ UNCHANGED <<scene, ndvi_1yr_o, coll_1yr_o, lf_clim_ndvi, ndvi_1yr_p,
                   ndvi_1yr_r, lf_prest, mk_prest, period, kendall, mk_trend,
                   task, mkvars>>

\* modis_16d_o.map(qa_filter)
MapQa(coll) == [i \in 1..Len(coll) |-> qa_filter(coll[i])]

\* lines 183-192: quality filter, annual NDVI, annual climate, paired stack
Resample ==
    /\ pc = "restrend"
    /\ ndvi_1yr_o' =
          int_16d_1yr_o(MapQa(modis_16d_o(scene)), year_start, year_end)
    /\ coll_1yr_o' = stack(scene, ndvi_1yr_o', year_start, year_end)
    /\ pc' = "fit"
    /\ UNCHANGED <<scene, params, year_start, year_end, geojson, EXECUTION_ID,
                   lf_clim_ndvi, ndvi_1yr_p, ndvi_1yr_r, lf_prest, mk_prest,
                   period, kendall, mk_trend, task, result, mkvars>>

ClimNdviSamples(coll) ==
    [i \in 1..Len(coll) |-> [x |-> coll[i].clim, y |-> coll[i].ndvi]]

YearResSamples(coll) ==
    [i \in 1..Len(coll) |-> [x |-> coll[i].year, y |-> coll[i].ndvi_res]]

\* lines 195-204: climate fit, prediction, residuals, residual trend (of
\* lf_prest only the band 'scale' is ever read)
Regress ==
    /\ pc = "fit"
    /\ lf_clim_ndvi' = linearFit(ClimNdviSamples(coll_1yr_o))
    /\ ndvi_1yr_p' = ndvi_clim_p(coll_1yr_o, lf_clim_ndvi')
    /\ ndvi_1yr_r' =
          ndvi_clim_r_coll(coll_1yr_o, ndvi_1yr_p', year_start, year_end)
    /\ lf_prest' = [scale |-> linearFitScale(YearResSamples(ndvi_1yr_r'))]
    /\ pc' = "kendall"
    /\ UNCHANGED <<scene, params, year_start, year_end, geojson, EXECUTION_ID,
                   ndvi_1yr_o, coll_1yr_o, mk_prest, period, kendall,
                   mk_trend, task, result, mkvars>>

\* select('ndvi') and select('ndvi_res') of a collection, as stacks
SelectNdvi(coll) == [i \in 1..Len(coll) |-> coll[i].ndvi]

SelectNdviRes(coll) == [i \in 1..Len(coll) |-> coll[i].ndvi_res]

\* a collection one of whose images cannot be computed
Broken(stackpx) == \E i \in 1..Len(stackpx) : stackpx[i].st = "error"

\* lines 207-218: both Mann-Kendall statistics and the critical value
Kendall ==
    /\ pc = "kendall"
    /\ mk_prest' = mann_kendall_stat(SelectNdviRes(ndvi_1yr_r))
    /\ period' = year_end - year_start + 1
    /\ kendall' = ArrayGet(coefficients, period' - 4)
    /\ mk_trend' = mann_kendall_stat(SelectNdvi(ndvi_1yr_o))
    /\ pc' = "export"
    /\ UNCHANGED <<scene, params, year_start, year_end, geojson, EXECUTION_ID,
                   ndvi_1yr_o, coll_1yr_o, lf_clim_ndvi, ndvi_1yr_p,
                   ndvi_1yr_r, lf_prest, task, result, mkvars>>

\* TimeSeriesList.length().getInfo() is evaluated by the server while run
\* waits: over a collection with an image that cannot be computed the call
\* may raise, and the exception leaves run before any task exists
GetInfoRaises ==
    /\ pc = "kendall"
    /\ \/ Broken(SelectNdviRes(ndvi_1yr_r))
       \/ Broken(SelectNdvi(ndvi_1yr_o))
    /\ pc' = "raised"
    /\ result' = "EEException"
    /\ UNCHANGED <<scene, params, year_start, year_end, geojson, EXECUTION_ID,
                   ndvi_1yr_o, coll_1yr_o, lf_clim_ndvi, ndvi_1yr_p,
                   ndvi_1yr_r, lf_prest, mk_prest, period, kendall, mk_trend,
                   task, mkvars>>

\* lines 220-233: the export dictionary, the task, task.start(), return task
StartTask ==
    /\ pc = "export"
    /\ task' = [started |-> TRUE, state |-> "READY",
                image |-> ExportImage(lf_prest.scale, mk_trend, kendall),
                description |-> EXECUTION_ID, region |-> geojson]
    /\ result' = "task"
    /\ pc' = "started"
    /\ UNCHANGED <<scene, params, year_start, year_end, geojson, EXECUTION_ID,
                   ndvi_1yr_o, coll_1yr_o, lf_clim_ndvi, ndvi_1yr_p,
                   ndvi_1yr_r, lf_prest, mk_prest, period, kendall, mk_trend,
                   mkvars>>

\* the started task evaluates its image: it completes with the pixel
\* written, or fails when the image cannot be computed
TaskRuns ==
    /\ pc = "started"
    /\ task' = [task EXCEPT !.state =
                   IF task.image.st = "error" THEN "FAILED" ELSE "COMPLETED"]
    /\ pc' = "done"
    /\ UNCHANGED <<scene, params, year_start, year_end, geojson, EXECUTION_ID,
                   ndvi_1yr_o, coll_1yr_o, lf_clim_ndvi, ndvi_1yr_p,
                   ndvi_1yr_r, lf_prest, mk_prest, period, kendall, mk_trend,
                   result, mkvars>>

RunAny == \E p \in ParamSets : Run(p)

Next ==
    \/ RunAny
    \/ Resample
    \/ Regress
    \/ Kendall
    \/ GetInfoRaises
    \/ StartTask
    \/ TaskRuns

Spec == Init /\ [][Next]_vars

----------------------------------------------------------------------------
(* mann_kendall_stat on its own, over every short stack *)

PixelValues == {Val(v) : v \in 0..MaxVal} \cup {Masked}

Stacks == UNION {[1..n -> PixelValues] : n \in 0..MaxLen}

InitMK ==
    /\ imageCollection \in Stacks
    /\ MKSstat = Unset /\ MKSrev = Unset
    /\ mkpc = "call"
    /\ scene = [gain |-> 1, drift |-> 0, trend |-> 0, amp |-> 0, phase |-> 0,
                gap |-> "none"]
    /\ pc = "off"
    /\ params = <<>>
    /\ year_start = 0 /\ year_end = 0 /\ geojson = "" /\ EXECUTION_ID = ""
    /\ ndvi_1yr_o = <<>> /\ coll_1yr_o = <<>>
    /\ lf_clim_ndvi = [scale |-> Unset, offset |-> Unset]
    /\ ndvi_1yr_p = <<>> /\ ndvi_1yr_r = <<>>
    /\ lf_prest = [scale |-> Unset]
    /\ mk_prest = Unset /\ period = 0 /\ kendall = Unset /\ mk_trend = Unset
    /\ task = NoTask
    /\ result = "none"

\* mann_kendall_stat(imageCollection)
MKCall ==
    /\ mkpc = "call"
    /\ MKSstat' = mann_kendall_stat(imageCollection)
    /\ mkpc' = "called"
    /\ UNCHANGED <<imageCollection, MKSrev, pipevars>>

\* mann_kendall_stat of the same stack in reversed time order
MKCallReversed ==
    /\ mkpc = "called"
    /\ MKSrev' = mann_kendall_stat(Reverse(imageCollection))
    /\ mkpc' = "both"
    /\ UNCHANGED <<imageCollection, MKSstat, pipevars>>

NextMK == MKCall \/ MKCallReversed

SpecMK == InitMK /\ [][NextMK]_vars

----------------------------------------------------------------------------
(* Reference definitions used by the claims *)

AllOk(s) == \A i \in 1..Len(s) : s[i].st = "ok"

TieFree(s) == \A i, j \in 1..Len(s) : i # j => s[i] # s[j]

\* the Mann-Kendall S of a stack: concordant minus discordant pairs over
\* every pair of distinct time indices i < j whose two values are valid
MannKendallS(s) ==
    LET P == {q \in (1..Len(s)) \X (1..Len(s)) :
                 q[1] < q[2] /\ s[q[1]].st = "ok" /\ s[q[2]].st = "ok"}
    IN  Cardinality({q \in P : RLt(s[q[1]], s[q[2]])})
        - Cardinality({q \in P : RLt(s[q[2]], s[q[1]])})

Years(coll) == [i \in 1..Len(coll) |-> coll[i].year]

YearsOfRes(coll) == [i \in 1..Len(coll) |-> coll[i].year.num]

Inclusive(ys, ye) == [i \in 1..(ye - ys + 1) |-> ys + i - 1]

Completed == pc = "done" /\ task.state = "COMPLETED"

NdviStack == SelectNdvi(ndvi_1yr_o)

Slope == lf_prest.scale

\* a year with no composite in the NDVI record, or with no climate window
NoNdviLayer(y) == filterDate(modis_16d_o(scene), y * 1000 + 1, y * 1000 + 365) = <<>>

NoClimWindow(y) == \A k \in ClimWindows : 1981 + k # y

\* the default year range, 2003 to 2015, over a scene without gaps
DefaultRange ==
    /\ year_start = DefaultYearStart
    /\ year_end = DefaultYearEnd
    /\ scene.gap = "none"

\* 0.01 NDVI per year
OneHundredth == Hundredths(Rat(1, 100))

\* the climate series the code stacks has variance and no covariance with
\* the year
ClimateUncorrelatedWithYear ==
    LET v == [i \in 1..Len(coll_1yr_o) |->
                 [x |-> Val(coll_1yr_o[i].year), y |-> coll_1yr_o[i].clim]]
    IN  /\ Len(v) >= 2
        /\ AllOk([i \in 1..Len(v) |-> v[i].y])
        /\ FitCov(v).num = 0
        /\ FitVar([i \in 1..Len(v) |-> [x |-> v[i].y, y |-> v[i].y]]).num # 0

----------------------------------------------------------------------------
(* The claims *)

\* C1: in every completed run the exported pixel is the nodata value when
\* |S of the annual NDVI stack| <= critical_value(period), or |slope| <= 1e-6,
\* or the slope is masked; otherwise it is the residual-trend slope.  S is
\* the Mann-Kendall S of the whole annual NDVI stack.
C1_ExportMasksByNdviS ==
    Completed =>
        task.image =
            IF \/ Slope.st # "ok"
               \/ Abs(MannKendallS(NdviStack)) <= coefficients[period - 3]
               \/ RLe(abs(Slope), SlopeEps)
            THEN Sentinel
            ELSE Slope

\* C2: mann_kendall_stat returns concordant minus discordant pairs over all
\* n(n-1)/2 pairs of the stack, the pairs with the last layer included
\* (stated for stacks of at least three valid layers).
C2_MKCountsAllPairs ==
    (mkpc \in {"called", "both"} /\ Len(imageCollection) >= 3
        /\ AllOk(imageCollection))
    => MKSstat = Val(MannKendallS(imageCollection))

\* C3: the paired stack, the residual stack and the annual NDVI stack each
\* hold exactly one layer per year from year_start to year_end inclusive, so
\* each has period = year_end - year_start + 1 layers.
C3_OneLayerPerYear ==
    pc \in {"kendall", "export", "started", "done", "raised"} =>
        /\ Years(coll_1yr_o) = Inclusive(year_start, year_end)
        /\ YearsOfRes(ndvi_1yr_r) = Inclusive(year_start, year_end)
        /\ Years(ndvi_1yr_o) = Inclusive(year_start, year_end)
        /\ Len(coll_1yr_o) = year_end - year_start + 1

\* C4: the critical-value lookup succeeds only for 4 <= period <= 39; for any
\* other period it fails and the run aborts without starting an export task.
C4_UnsupportedPeriodAborts ==
    pc \in {"export", "started", "done"} =>
        IF period \in 4..39
        THEN kendall = Val(coefficients[period - 3])
        ELSE kendall.st = "error" /\ ~task.started

\* C5: if a year of the requested range year_start..year_end has no NDVI
\* composite or no climate window, the run aborts: no export task is started.
C5_MissingYearAborts ==
    (pc \notin {"idle", "returned"}
        /\ \E y \in year_start..year_end : NoNdviLayer(y) \/ NoClimWindow(y))
    => ~task.started

\* C6: for 2003..2015 and NDVI a noiseless increasing linear function of the
\* climate plus a drift of +0.01 per year, the output is not the nodata value
\* and equals 0.01, whatever the climate series is.
C6_DriftRecoveredForAnyClimate ==
    (pc = "done" /\ DefaultRange /\ scene.drift = 1)
    => (task.state = "COMPLETED" /\ task.image = OneHundredth)

\* C6 as amended: for 2003..2015 and such a grid, the output equals 0.01 at a
\* pixel whose stacked climate series has variance and no covariance with the
\* year and whose S, as computed on the annual NDVI stack, exceeds the
\* critical value.
C6_DriftRecoveredWhenUncorrelated ==
    (pc = "done" /\ DefaultRange /\ scene.drift = 1
        /\ ClimateUncorrelatedWithYear
        /\ mk_trend.st = "ok" /\ kendall.st = "ok"
        /\ Abs(mk_trend.num) > kendall.num)
    => (task.state = "COMPLETED" /\ task.image = OneHundredth)

C6_Witness ==
    /\ pc = "done" /\ DefaultRange /\ scene.drift = 1
    /\ ClimateUncorrelatedWithYear
    /\ mk_trend.st = "ok" /\ kendall.st = "ok"
    /\ Abs(mk_trend.num) > kendall.num
    /\ task.image = OneHundredth

\* C7: for 2003..2015 and NDVI exactly a noiseless linear function of the
\* climate (no drift), the output is the nodata value -99999.
C7_NoDriftAllNoData ==
    (pc = "done" /\ DefaultRange /\ scene.drift = 0)
    => (task.state = "COMPLETED" /\ task.image = Sentinel)

C7_Witness ==
    /\ pc = "done" /\ DefaultRange /\ scene.drift = 0
    /\ Slope = Val(0)
    /\ mk_trend.st = "ok" /\ Abs(mk_trend.num) > kendall.num
    /\ task.image = Sentinel

\* C8: for a tie-free series, S of the series in reversed time order is the
\* negation of S of the series (stated for at least three valid layers).
C8_ReversalNegatesS ==
    (mkpc = "both" /\ Len(imageCollection) >= 3 /\ AllOk(imageCollection)
        /\ TieFree(imageCollection))
    => (MKSstat.st = "ok" /\ MKSrev = RNeg(MKSstat))

\* C9: when the geojson entry is missing or empty, run returns a failure
\* without invoking restrend_pointwise and without starting an export task.
C9_MissingOrEmptyGeometryFails ==
    (pc # "idle" /\ params.geojson \in {<<>>, <<"None">>, <<"{}">>})
    => (pc = "returned" /\ result = "False" /\ ~task.started)

\* C9 as amended: when the geojson entry is present and empty (None or an
\* empty dict), run returns False without invoking restrend_pointwise and
\* without starting an export task; a missing entry is replaced by the
\* default polygon.
C9_EmptyGeometryFails ==
    /\ (pc # "idle" /\ params.geojson \in {<<"None">>, <<"{}">>})
        => (pc = "returned" /\ result = "False" /\ ~task.started
            /\ coll_1yr_o = <<>>)
    /\ (pc # "idle" /\ params.geojson = <<>>) => geojson = default_poly

C9_Witness ==
    pc = "returned" /\ params.geojson = <<"{}">> /\ result = "False"

\* C10: the significance mask of the output is derived from the Mann-Kendall
\* S of the residual stack: the pixel is the nodata value where that S is at
\* most the critical value in magnitude, and the slope where it is larger
\* (and the slope is valid and not negligible).
C10_MaskFromResidualS ==
    Completed =>
        task.image =
            IF \/ Slope.st # "ok"
               \/ (mk_prest.st = "ok" /\ Abs(mk_prest.num) <= kendall.num)
               \/ RLe(abs(Slope), SlopeEps)
            THEN Sentinel
            ELSE Slope

====
